---- MODULE Spec2Model ----
(***************************************************************************)
(* Model of the documentation builder of gcloud-node                       *)
(* (scripts/docs/builder.js): Builder, Bundler, the manifest and the       *)
(* build() driver, as a sequential state machine.                          *)
(***************************************************************************)
EXTENDS Integers, Sequences, FiniteSets, TLC

(***************************************************************************)
(* Bounds of the model.                                                    *)
(***************************************************************************)
\* number of top-level calls (build, updateManifest, updateDep) one run makes
MaxCalls == 2

(***************************************************************************)
(* Configuration (scripts/docs/config.js) and the universe of inputs.      *)
(***************************************************************************)
UMBRELLA_PACKAGE == "google-cloud"
DEFAULT_VERSION == "master"
TYPES_DICT == "types.json"
TOC == "toc.json"
DOCS_ROOT == "docs/json"

\* JavaScript's null / undefined, and the absent (falsy) version argument
Null == "<null>"
Undefined == ""

Packages == {"bigtable", UMBRELLA_PACKAGE, "vision"}
DepVersions == {"0.4.0", "0.4.1"}
UmbrellaVersions == {"0.44.0", "0.45.0"}
VersionsOf(name) == IF name = UMBRELLA_PACKAGE THEN UmbrellaVersions ELSE DepVersions
Ranges == {"^0.3.0", "^0.4.0", "0.4.0"}

\* the source files of a package matched by <name>/src/*.js, in globby's order
SrcFiles(name) ==
  IF name = "bigtable" THEN <<"index.js", "table.js">> ELSE <<"index.js">>

(***************************************************************************)
(* Strings: the order of ids under JavaScript's > and path.join.           *)
(***************************************************************************)
\* position of an id in the lexicographic order of the ids of the universe
StrRank(s) ==
  CASE s = "bigtable" -> 1
    [] s = "google-cloud" -> 2
    [] s = "vision" -> 3

StrGreater(a, b) == StrRank(a) > StrRank(b)

\* path.join of two parts: empty parts are dropped
PathJoin(a, b) ==
  IF a = "" THEN b ELSE IF b = "" THEN a ELSE a \o "/" \o b

(***************************************************************************)
(* semver: valid, satisfies, maxSatisfying.                                *)
(***************************************************************************)
\* semver.valid / parse: the [major, minor, patch] of a version string, or
\* Null for a string that is no version ("master")
SemverParse(v) ==
  CASE v = "0.3.0" -> <<0, 3, 0>>
    [] v = "0.4.0" -> <<0, 4, 0>>
    [] v = "0.4.1" -> <<0, 4, 1>>
    [] v = "0.44.0" -> <<0, 44, 0>>
    [] v = "0.45.0" -> <<0, 45, 0>>
    [] OTHER -> <<>>

SemverValid(v) == SemverParse(v) # <<>>

\* compare two parsed versions: -1, 0, 1
SemverCompare(a, b) ==
  IF a[1] # b[1] THEN (IF a[1] < b[1] THEN -1 ELSE 1)
  ELSE IF a[2] # b[2] THEN (IF a[2] < b[2] THEN -1 ELSE 1)
  ELSE IF a[3] # b[3] THEN (IF a[3] < b[3] THEN -1 ELSE 1)
  ELSE 0

\* a range string of package.json: its operator and its version
RangeParse(r) ==
  CASE r = "^0.3.0" -> [op |-> "^", v |-> <<0, 3, 0>>]
    [] r = "^0.4.0" -> [op |-> "^", v |-> <<0, 4, 0>>]
    [] r = "0.4.0" -> [op |-> "=", v |-> <<0, 4, 0>>]

\* the exclusive upper end of a caret range
CaretUpper(v) ==
  IF v[1] > 0 THEN <<v[1] + 1, 0, 0>>
  ELSE IF v[2] > 0 THEN <<0, v[2] + 1, 0>>
  ELSE <<0, 0, v[3] + 1>>

SemverSatisfies(v, r) ==
  LET p == SemverParse(v)
      rg == RangeParse(r)
  IN  /\ p # <<>>
      /\ IF rg.op = "^"
           THEN SemverCompare(p, rg.v) >= 0 /\ SemverCompare(p, CaretUpper(rg.v)) < 0
           ELSE SemverCompare(p, rg.v) = 0

\* Array.prototype.filter(semver.valid)
RECURSIVE FilterValid(_)
FilterValid(versions) ==
  IF versions = <<>> THEN <<>>
  ELSE (IF SemverValid(Head(versions)) THEN <<Head(versions)>> ELSE <<>>)
         \o FilterValid(Tail(versions))

\* a maxSatisfying that keeps the last satisfying version it meets
RECURSIVE MaxSatisfyingFrom_Last(_, _, _)
MaxSatisfyingFrom_Last(versions, range, max) ==
  IF versions = <<>> THEN max
  ELSE MaxSatisfyingFrom_Last(Tail(versions), range,
         IF SemverSatisfies(Head(versions), range) THEN Head(versions) ELSE max)

\* semver.maxSatisfying(versions, range): the greatest listed version that
\* satisfies the range, null when none does
RECURSIVE MaxSatisfyingFrom(_, _, _)
MaxSatisfyingFrom(versions, range, max) ==
  IF versions = <<>> THEN max
  ELSE LET v == Head(versions)
           better == /\ SemverSatisfies(v, range)
                     /\ \/ max = Null
                        \/ SemverCompare(SemverParse(max), SemverParse(v)) = -1
       IN  MaxSatisfyingFrom(Tail(versions), range, IF better THEN v ELSE max)

MaxSatisfying(versions, range) == MaxSatisfyingFrom(versions, range, Null)

(***************************************************************************)
(* Builder.                                                                *)
(***************************************************************************)
\* new Builder(name, version, cwd)
Builder(name, version, cwd) ==
  LET ver == IF version = Undefined \/ version = Null THEN DEFAULT_VERSION ELSE version
  IN  [name |-> name,
       version |-> ver,
       dir |-> PathJoin(cwd, PathJoin(DOCS_ROOT, PathJoin(name, ver))),
       isUmbrella |-> (name = UMBRELLA_PACKAGE),
       isMaster |-> (ver = DEFAULT_VERSION)]

\* a getTagName that tests isUmbrella before isMaster
getTagName_UmbrellaFirst(b) ==
  IF b.isUmbrella THEN "v" \o b.version
  ELSE IF b.isMaster THEN b.version
  ELSE b.name \o "-" \o b.version

\* Builder.prototype.getTagName
getTagName(b) ==
  IF b.isMaster THEN b.version
  ELSE IF b.isUmbrella THEN "v" \o b.version
  ELSE b.name \o "-" \o b.version

(***************************************************************************)
(* The manifest.                                                           *)
(***************************************************************************)
\* findWhere(collection, {key: value}): the index of the first element whose
\* property key is value, 0 for null
RECURSIVE FindFrom(_, _, _, _)
FindFrom(collection, key, value, i) ==
  IF i > Len(collection) THEN 0
  ELSE IF collection[i][key] = value THEN i
  ELSE FindFrom(collection, key, value, i + 1)

findWhere(collection, key, value) == FindFrom(collection, key, value, 1)

\* indexOf(version) === -1
NotIn(versions, v) == \A k \in 1..Len(versions) : versions[k] # v

\* a comparison by id alone, without the umbrella rule
sortByModId_IdOnly(a, b) ==
  IF StrGreater(a.id, b.id) THEN 1
  ELSE (IF a.id = b.id THEN 1 ELSE 0) - 1

\* sortByModId(a, b)
sortByModId(a, b) ==
  IF a.id = UMBRELLA_PACKAGE THEN -1
  ELSE IF b.id = UMBRELLA_PACKAGE THEN 1
  ELSE IF StrGreater(a.id, b.id) THEN 1
  ELSE (IF a.id = b.id THEN 1 ELSE 0) - 1

\* Array.prototype.sort(sortByModId) of a short array: insertion sort, each
\* element moved left past every element the comparison puts after it
RECURSIVE SortInsert(_, _)
SortInsert(prefix, element) ==
  IF prefix = <<>> THEN <<element>>
  ELSE LET tmp == prefix[Len(prefix)]
       IN  IF sortByModId(tmp, element) > 0
             THEN SortInsert(SubSeq(prefix, 1, Len(prefix) - 1), element) \o <<tmp>>
             ELSE prefix \o <<element>>

RECURSIVE SortFrom(_, _)
SortFrom(done, rest) ==
  IF rest = <<>> THEN done
  ELSE SortFrom(SortInsert(done, Head(rest)), Tail(rest))

ArraySort(modules) == SortFrom(<<>>, modules)

\* a push where the code unshifts: the new version goes to the end
RecordVersion_Push(versions, version) ==
  IF NotIn(versions, version) THEN Append(versions, version) ELSE versions

\* an unshift without the indexOf test
RecordVersion_NoTest(versions, version) == <<version>> \o versions

\* config.versions.unshift(version) when indexOf(version) === -1
RecordVersion(versions, version) ==
  IF NotIn(versions, version) THEN <<version>> \o versions ELSE versions

\* an updateManifest that pushes a new entry without looking for one
updateManifest_AlwaysPush(modules, b) ==
  LET config == [id |-> b.name,
                 name |-> "@google-cloud/" \o b.name,
                 defaultService |-> b.name,
                 versions |-> <<"master">>]
      listed == ArraySort(Append(modules, config))
      at == findWhere(listed, "id", b.name)
  IN  [listed EXCEPT ![at].versions = RecordVersion(@, b.version)]

\* Builder.prototype.updateManifest: the modules list after the call
updateManifest(modules, b) ==
  LET found == findWhere(modules, "id", b.name)
      config == [id |-> b.name,
                 name |-> "@google-cloud/" \o b.name,
                 defaultService |-> b.name,
                 versions |-> <<"master">>]
      listed == IF found = 0 THEN ArraySort(Append(modules, config)) ELSE modules
      at == findWhere(listed, "id", b.name)
  IN  [listed EXCEPT ![at].versions = RecordVersion(@, b.version)]

(***************************************************************************)
(* State.                                                                  *)
(***************************************************************************)
VARIABLES
  manifest,      \* manifest.modules, the in-memory manifest
  manifestFile,  \* docs/manifest.json on disk
  pkgJson,       \* the umbrella's package.json dependencies at each ref
  head,          \* the ref the main working tree is on
  prevHead,      \* the ref `git checkout -` goes back to
  fs,            \* the files written under docs/json: path -> contents
  pc,            \* the statement of the running call, "idle" between calls
  cur,           \* the running call: its operation, arguments and Builder
  idx,           \* Bundler.updateDep's loop index i (0-based, as in the code)
  trace,         \* the steps the running (or last) call has taken, in order
  err,           \* the error the last call threw, Null when none
  calls,         \* number of top-level calls made
  recorded,      \* the umbrella versions updateManifest recorded, in order
  required,      \* Node's module cache: the objects require() has loaded
  pending,       \* the modules buildAll's forEach still has to finish
  peer           \* a second build process, while the other one is running

vars == <<manifest, manifestFile, pkgJson, head, prevHead, fs, pc, cur, idx,
          trace, err, calls, recorded, required, pending, peer>>

Event(op, arg) == [op |-> op, arg |-> arg]

\* f with path p written
Put(f, p, c) == [q \in DOMAIN f \cup {p} |-> IF q = p THEN c ELSE f[q]]

(***************************************************************************)
(* Source control (helpers.git): checkout(ref) and checkout('-').          *)
(***************************************************************************)
\* <<head, prevHead>> after git.checkout(ref)
GitCheckout(h, prev, ref) == IF ref = "-" THEN <<prev, h>> ELSE <<ref, h>>

(***************************************************************************)
(* The parser collaborator (scripts/docs/parser.js).                       *)
(***************************************************************************)
createOverview(service, isBundle) == [service |-> service, bundle |-> isBundle]

\* parser.parseFile: the JSON of one source file, read from the tree at ref
parseFile(name, file, ref) ==
  [id |-> name, src |-> file, ref |-> ref, path |-> Undefined,
   overview |-> createOverview(name, FALSE)]

\* the message of the error parser.parseFile throws on a malformed file
ParseErrorMessage == "Unexpected token"

\* parser.createTypesDictionary(docs): one type per documented file
RECURSIVE createTypesDictionary(_)
createTypesDictionary(docs) ==
  IF docs = <<>> THEN <<>>
  ELSE <<[name |-> Head(docs).id, contents |-> Head(docs).path]>>
         \o createTypesDictionary(Tail(docs))

\* parser.createToc(types, isBundle)
createToc(types, isBundle) ==
  [services |-> types, bundle |-> isBundle, tagName |-> Undefined]

(***************************************************************************)
(* Builder.prototype.build, without the bundle of an umbrella build.       *)
(***************************************************************************)
\* file.replace(/^.+src\//, '') + 'on'
OutputFile(file) == file \o "on"

\* a source file as globby lists it: <name>/src/<file>
SrcPath(name, file) == PathJoin(name, PathJoin("src", file))

\* the source files of the universe; one of them may fail to parse
AllSrcPaths ==
  UNION {{SrcPath(n, SrcFiles(n)[k]) : k \in 1..Len(SrcFiles(n))} : n \in Packages}

\* the files map(parse, write) over the source files, stopping at a file of
\* the package whose sources do not parse: [fs, docs, err]
RECURSIVE BuildDocs(_, _, _, _, _, _)
BuildDocs(b, files, f, docs, ref, bad) ==
  IF files = <<>> THEN [fs |-> f, docs |-> docs, err |-> Null]
  ELSE IF bad = SrcPath(b.name, Head(files))
    THEN [fs |-> f, docs |-> docs,
          err |-> "Unable to generate docs for file: " \o bad
                    \o ". Reason: " \o ParseErrorMessage]
  ELSE LET outputFile == OutputFile(Head(files))
           json == [parseFile(b.name, Head(files), ref) EXCEPT !.path = outputFile]
       IN  BuildDocs(b, Tail(files), Put(f, PathJoin(b.dir, outputFile), json),
                     Append(docs, json), ref, bad)

\* a build that writes the type dictionary and the TOC of the files parsed so
\* far even when a file failed to parse
BuildWrite_Always(b, parsed, types) ==
  [fs |-> Put(Put(parsed.fs, PathJoin(b.dir, TYPES_DICT), types),
              PathJoin(b.dir, TOC),
              [createToc(types, FALSE) EXCEPT !.tagName = getTagName(b)]),
   err |-> parsed.err]

\* lines 91-96 after the map over the source files: an error of parseFile
\* has left the function; otherwise the type dictionary and the TOC are
\* written
BuildWrite(b, parsed, types) ==
  IF parsed.err # Null THEN [fs |-> parsed.fs, err |-> parsed.err]
  ELSE [fs |-> Put(Put(parsed.fs, PathJoin(b.dir, TYPES_DICT), types),
                   PathJoin(b.dir, TOC),
                   [createToc(types, FALSE) EXCEPT !.tagName = getTagName(b)]),
        err |-> Null]

BuildParsed(b, parsed) == BuildWrite(b, parsed, createTypesDictionary(parsed.docs))

\* lines 75-96: markdown, the docs, the type dictionary and the TOC
BuildOwn(b, f, ref, bad) ==
  BuildParsed(b, BuildDocs(b, SrcFiles(b.name),
                           Put(f, PathJoin(b.dir, "faq.md"), [id |-> "faq", ref |-> ref]),
                           <<>>, ref, bad))

(***************************************************************************)
(* Bundler.                                                                *)
(***************************************************************************)
\* a JavaScript value with its typeof
Str(s) == [typeof |-> "string", value |-> s]
Obj(o) == [typeof |-> "object", value |-> o]

\* a constructor that fills the fields in itself for a version string
Bundler_Fields(builder) ==
  IF builder.typeof = "string"
    THEN [name |-> UMBRELLA_PACKAGE,
          version |-> builder.value,
          dir |-> PathJoin(DOCS_ROOT, PathJoin(UMBRELLA_PACKAGE, builder.value)),
          isUmbrella |-> TRUE,
          isMaster |-> FALSE]
    ELSE builder.value

\* new Bundler(builder | version): the Builder it wraps
Bundler(builder) ==
  IF builder.typeof = "string"
    THEN Builder(UMBRELLA_PACKAGE, builder.value, "")
    ELSE builder.value

\* dep.replace('@google-cloud/', '') of a key that matches /^\@google\-cloud/,
\* Null for a key that does not match
ScopedName(key) ==
  CASE key = "@google-cloud/bigtable" -> "bigtable"
    [] key = "@google-cloud/vision" -> "vision"
    [] OTHER -> Null

\* Bundler.prototype.getDeps over the dependencies of package.json
RECURSIVE getDeps(_)
getDeps(dependencies) ==
  IF dependencies = <<>> THEN <<>>
  ELSE (IF ScopedName(Head(dependencies).key) # Null
          THEN <<[name |-> ScopedName(Head(dependencies).key),
                  version |-> Head(dependencies).range]>>
          ELSE <<>>)
         \o getDeps(Tail(dependencies))

\* globby.sync(<dir>/*.json) minus the type dictionary and the TOC: the doc
\* files a build of the package leaves in dir
RECURSIVE DocFiles(_, _, _)
DocFiles(f, dir, files) ==
  IF files = <<>> THEN <<>>
  ELSE (IF PathJoin(dir, OutputFile(Head(files))) \in DOMAIN f
          THEN <<OutputFile(Head(files))>> ELSE <<>>)
         \o DocFiles(f, dir, Tail(files))

\* an add that writes the docs at the top of the umbrella's output directory
RECURSIVE AddFiles_TopLevel(_, _, _, _, _)
AddFiles_TopLevel(self, builder, f, req, files) ==
  IF files = <<>> THEN [fs |-> f, req |-> req]
  ELSE AddFiles_TopLevel(self, builder,
         Put(f, PathJoin(self.dir, Head(files)),
             [f[PathJoin(builder.dir, Head(files))]
                EXCEPT !.overview = createOverview(builder.name, TRUE)]),
         req, Tail(files))

\* require(file): Node loads a file once and keeps the loaded object in its
\* module cache under the file's name; a later require of that name yields
\* the cached object, whatever the file holds by then
Require(req, f, file) == IF file \in DOMAIN req THEN req[file] ELSE f[file]

\* Builder.prototype.getTypes
getTypes(b, f, req) == Require(req, f, PathJoin(b.dir, TYPES_DICT))

\* Bundler.prototype.add: the files and the module cache after the docs of
\* builder are copied into the folder builder.name of the umbrella's output
\* directory; json.overview is set on the loaded (cached) object
RECURSIVE AddFiles(_, _, _, _, _)
AddFiles(self, builder, f, req, files) ==
  IF files = <<>> THEN [fs |-> f, req |-> req]
  ELSE LET file == PathJoin(builder.dir, Head(files))
           json == Require(req, f, file)
           outputFile == PathJoin(builder.name, Head(files))
           out == [json EXCEPT !.overview = createOverview(json.id, TRUE)]
       IN  AddFiles(self, builder, Put(f, PathJoin(self.dir, outputFile), out),
                    Put(req, file, out), Tail(files))

add(self, builder, f, req) ==
  AddFiles(self, builder, f, req, DocFiles(f, builder.dir, SrcFiles(builder.name)))

\* a first map that leaves out a dependency without a manifest entry
RECURSIVE ResolveDeps_Skip(_, _, _)
ResolveDeps_Skip(deps, modules, done) ==
  IF deps = <<>> THEN [deps |-> done, err |-> Null]
  ELSE IF findWhere(modules, "id", Head(deps).name) = 0
    THEN ResolveDeps_Skip(Tail(deps), modules, done)
  ELSE ResolveDeps_Skip(Tail(deps), modules,
         Append(done,
           [name |-> Head(deps).name,
            version |-> MaxSatisfying(
                          FilterValid(modules[findWhere(modules, "id",
                                                        Head(deps).name)].versions),
                          Head(deps).version)]))

\* the first map of Bundler.prototype.bundle (lines 306-314): each declared
\* dependency with the version its range resolves to; a dependency without a
\* manifest entry throws
RECURSIVE ResolveDeps(_, _, _)
ResolveDeps(deps, modules, done) ==
  IF deps = <<>> THEN [deps |-> done, err |-> Null]
  ELSE LET dep == Head(deps)
           at == findWhere(modules, "id", dep.name)
       IN  IF at = 0
             THEN [deps |-> done,
                   err |-> "TypeError: Cannot read property 'versions' of null"]
             ELSE ResolveDeps(Tail(deps), modules,
                    Append(done,
                      [name |-> dep.name,
                       version |-> MaxSatisfying(FilterValid(modules[at].versions),
                                                 dep.version)]))

\* type.contents = path.join(dep.name, type.contents) over a type dictionary
RECURSIVE PrefixTypes(_, _)
PrefixTypes(name, types) ==
  IF types = <<>> THEN <<>>
  ELSE <<[Head(types) EXCEPT !.contents = PathJoin(name, @)]>>
         \o PrefixTypes(name, Tail(types))

\* the directory of the submodule checkout git.submodule('master', 'bundler')
SubmoduleCwd == "bundler"

\* the second map of bundle (lines 318-329): each dependency is checked out
\* in the submodule, built and added; the prefix is put on the entries of the
\* loaded (cached) type dictionary itself: [fs, req, types, trace, err]
RECURSIVE BundleDeps(_, _, _, _, _, _, _, _)

\* lines 325-328: the dependency's types, prefixed, join depTypes and the map
\* goes on with the next dependency
BundleTyped(self, deps, builder, added, types, depTypes, ev, ref, bad) ==
  BundleDeps(self, Tail(deps), added.fs,
             Put(added.req, PathJoin(builder.dir, TYPES_DICT), types),
             depTypes \o types,
             Append(ev, Event("Bundler.add", self.version)), ref, bad)

BundleAdded(self, deps, builder, added, depTypes, ev, ref, bad) ==
  BundleTyped(self, deps, builder, added,
              PrefixTypes(builder.name, getTypes(builder, added.fs, added.req)),
              depTypes, ev, ref, bad)

\* lines 322-325: builder.build() threw, or self.add(builder) and getTypes()
BundleBuilt(self, deps, builder, built, req, depTypes, ev, ref, bad) ==
  IF built.err # Null
    THEN [fs |-> built.fs, req |-> req, types |-> depTypes, trace |-> ev,
          err |-> built.err]
    ELSE BundleAdded(self, deps, builder, add(self, builder, built.fs, req),
                     depTypes, ev, ref, bad)

\* lines 319-322: new Builder in the submodule, its checkout and its build
BundleDep(self, deps, builder, f, req, depTypes, events, ref, bad) ==
  BundleBuilt(self, deps, builder, BuildOwn(builder, f, ref, bad), req, depTypes,
              events \o <<Event("submodule.checkout", getTagName(builder)),
                          Event("Builder.build", builder.dir)>>,
              ref, bad)

BundleDeps(self, deps, f, req, depTypes, events, ref, bad) ==
  IF deps = <<>>
    THEN [fs |-> f, req |-> req, types |-> depTypes, trace |-> events, err |-> Null]
    ELSE BundleDep(self, deps,
                   Builder(Head(deps).name, Head(deps).version, SubmoduleCwd),
                   f, req, depTypes, events, ref, bad)

\* the names a build leaves in its output directory
OutputNames == {TYPES_DICT, TOC, "faq.md"}
                 \cup UNION {{OutputFile(SrcFiles(n)[k]) : k \in 1..Len(SrcFiles(n))}
                               : n \in Packages}

\* every path a build inside the submodule checkout can write
SubmoduleTree ==
  UNION {UNION {{PathJoin(Builder(n, v, SubmoduleCwd).dir, x) : x \in OutputNames}
                  : v \in VersionsOf(n) \cup {DEFAULT_VERSION}}
           : n \in Packages}

\* the files under the submodule checkout
SubmodulePaths(f) == DOMAIN f \cap SubmoduleTree

\* git.deinit(submodule): the submodule checkout is removed
GitDeinit(f) == [p \in DOMAIN f \ SubmodulePaths(f) |-> f[p]]

\* a bundle that removes the submodule checkout before it writes
BundleWrite_DeinitFirst(self, types, built) ==
  [fs |-> Put(Put(GitDeinit(built.fs), PathJoin(self.dir, TYPES_DICT), types),
              PathJoin(self.dir, TOC),
              [createToc(types, TRUE) EXCEPT !.tagName = getTagName(self)]),
   req |-> built.req,
   trace |-> built.trace \o <<Event("git.deinit", SubmoduleCwd),
                              Event("Builder.write", PathJoin(self.dir, TYPES_DICT)),
                              Event("Builder.write", PathJoin(self.dir, TOC))>>,
   err |-> Null]

\* lines 331-338: the combined type dictionary and TOC, then git.deinit
BundleWrite(self, types, built) ==
  [fs |-> GitDeinit(Put(Put(built.fs, PathJoin(self.dir, TYPES_DICT), types),
                        PathJoin(self.dir, TOC),
                        [createToc(types, TRUE) EXCEPT !.tagName = getTagName(self)])),
   req |-> built.req,
   trace |-> built.trace \o <<Event("Builder.write", PathJoin(self.dir, TYPES_DICT)),
                              Event("Builder.write", PathJoin(self.dir, TOC)),
                              Event("git.deinit", SubmoduleCwd)>>,
   err |-> Null]

\* after the second map: an error of a dependency's build has left bundle
BundleBuiltAll(self, baseTypes, built) ==
  IF built.err # Null
    THEN [fs |-> built.fs, req |-> built.req, trace |-> built.trace,
          err |-> built.err]
    ELSE BundleWrite(self, baseTypes \o built.types, built)

\* after the first map: a dependency without a manifest entry has thrown,
\* before git.submodule
BundleResolved(self, f, baseTypes, loaded, resolved, ref, bad) ==
  IF resolved.err # Null
    THEN [fs |-> f, req |-> loaded, trace |-> <<>>, err |-> resolved.err]
    ELSE BundleBuiltAll(self, baseTypes,
           BundleDeps(self, resolved.deps, f, loaded, <<>>,
                      <<Event("git.submodule", SubmoduleCwd)>>, ref, bad))

BundleLoaded(self, f, baseTypes, req, modules, dependencies, ref, bad) ==
  BundleResolved(self, f, baseTypes,
                 Put(req, PathJoin(self.dir, TYPES_DICT), baseTypes),
                 ResolveDeps(getDeps(dependencies), modules, <<>>), ref, bad)

\* Bundler.prototype.bundle, run on the tree at ref: [fs, req, trace, err]
bundle(self, f, req, modules, dependencies, ref, bad) ==
  BundleLoaded(self, f, getTypes(self, f, req), req, modules, dependencies, ref, bad)

\* lines 98-100 of Builder.prototype.build, after its own files are written
BuildBundle(b, own, req, modules, dependencies, ref, bad) ==
  IF own.err # Null
    THEN [fs |-> own.fs, req |-> req, trace |-> <<>>, err |-> own.err]
  ELSE IF b.isUmbrella
    THEN bundle(Bundler(Obj(b)), own.fs, req, modules, dependencies, ref, bad)
  ELSE [fs |-> own.fs, req |-> req, trace |-> <<>>, err |-> Null]

\* Builder.prototype.build (lines 72-101): [fs, req, trace, err]
build(b, f, req, modules, dependencies, ref, bad) ==
  BuildBundle(b, BuildOwn(b, f, ref, bad), req, modules, dependencies, ref, bad)

(***************************************************************************)
(* Initial states: the manifest file read at startup and the repository.   *)
(***************************************************************************)
Module(id, versions) ==
  [id |-> id, name |-> "@google-cloud/" \o id, defaultService |-> id,
   versions |-> versions]

\* docs/manifest.json as require(manifestPath) finds it
InitialManifests ==
  { <<>>,
    <<Module("vision", <<"master">>)>>,
    <<Module(UMBRELLA_PACKAGE, <<"0.44.0", "master">>),
      Module("bigtable", <<"0.4.0", "0.3.0", "master">>)>>,
    <<Module(UMBRELLA_PACKAGE, <<"0.45.0", "0.44.0">>),
      Module("bigtable", <<"0.4.0", "0.3.0", "master">>)>>,
    <<Module(UMBRELLA_PACKAGE, <<"0.45.0", "0.44.0", "master">>),
      Module("bigtable", <<"0.4.0", "0.3.0", "master">>)>> }

Dependency(key, range) == [key |-> key, range |-> range]

\* the dependencies packages/google-cloud/package.json may declare at a ref
DepChoices ==
  { <<Dependency("@google-cloud/bigtable", "^0.4.0")>>,
    <<Dependency("@google-cloud/bigtable", "^0.3.0")>>,
    <<Dependency("extend", "^3.0.0"), Dependency("@google-cloud/bigtable", "^0.4.0"),
      Dependency("@google-cloud/vision", "^0.4.0")>> }

\* the refs package.json is read at: the umbrella's release tags and master
UmbrellaRefs == {"master", "v0.44.0", "v0.45.0"}

\* the repository: the dependencies declared at each ref of the umbrella
\* package, the master branch being at the newest release
Repositories ==
  {r \in [UmbrellaRefs -> DepChoices] : r[DEFAULT_VERSION] = r["v0.45.0"]}

NoFiles == [p \in {} |-> Null]
NoCall == [op |-> "none", name |-> Undefined, version |-> Undefined,
           b |-> Builder(Undefined, Undefined, "")]

\* what a build process holds in its own memory
Process(m, at, call, i, steps, e, req, rest) ==
  [manifest |-> m, pc |-> at, cur |-> call, idx |-> i, trace |-> steps,
   err |-> e, required |-> req, pending |-> rest]

Init ==
  /\ manifest \in InitialManifests
  /\ manifestFile = manifest
  /\ pkgJson \in Repositories
  /\ head = "master"
  /\ prevHead = Null
  /\ fs = NoFiles
  /\ pc = "idle"
  /\ cur = NoCall
  /\ idx = 0
  /\ trace = <<>>
  /\ err = Null
  /\ calls = 0
  /\ recorded = <<>>
  /\ required = NoFiles
  /\ pending = <<>>
  /\ peer = Process(manifest, "idle", NoCall, 0, <<>>, Null, NoFiles, <<>>)

\* the arguments a caller may pass as version
VersionArgs(name) == VersionsOf(name) \cup {DEFAULT_VERSION, Undefined}

\* the dependencies package.json declares in the working tree on ref; a ref
\* that is no release of the umbrella package carries master's package.json
DependenciesAt(ref) ==
  IF ref \in DOMAIN pkgJson THEN pkgJson[ref] ELSE pkgJson[DEFAULT_VERSION]

(***************************************************************************)
(* build(name, version), statement by statement (lines 427-438).           *)
(***************************************************************************)
\* var builder = new Builder(name, version); git.checkout(builder.getTagName())
CallBuild(name, version) ==
  /\ pc = "idle"
  /\ UNCHANGED <<required, pending, peer>>
  /\ calls < MaxCalls
  /\ LET b == Builder(name, version, "")
         co == GitCheckout(head, prevHead, getTagName(b))
     IN  /\ cur' = [op |-> "build", name |-> name, version |-> version, b |-> b]
         /\ head' = co[1]
         /\ prevHead' = co[2]
         /\ trace' = <<Event("git.checkout", getTagName(b))>>
  /\ pc' = "Builder.build"
  /\ err' = Null
  /\ idx' = 0
  /\ calls' = calls + 1
  /\ UNCHANGED <<manifest, manifestFile, pkgJson, fs, recorded>>

\* globby.sync('*') under packages: the modules buildAll builds, in order
Modules == <<"bigtable", UMBRELLA_PACKAGE, "vision">>

\* buildAll(): the forEach starts with build(modules[0], DEFAULT_VERSION)
CallBuildAll ==
  /\ pc = "idle"
  /\ calls < MaxCalls
  /\ pending' = Modules
  /\ LET b == Builder(Head(Modules), DEFAULT_VERSION, "")
         co == GitCheckout(head, prevHead, getTagName(b))
     IN  /\ cur' = [op |-> "build", name |-> b.name, version |-> DEFAULT_VERSION,
                    b |-> b]
         /\ head' = co[1]
         /\ prevHead' = co[2]
         /\ trace' = <<Event("git.checkout", getTagName(b))>>
  /\ pc' = "Builder.build"
  /\ err' = Null
  /\ idx' = 0
  /\ calls' = calls + 1
  /\ UNCHANGED <<manifest, manifestFile, pkgJson, fs, recorded, required, peer>>

\* the forEach of buildAll goes on: build(name, DEFAULT_VERSION) of the next
\* module, once the build of the module before it has returned
StepNextModule ==
  /\ pc = "done"
  /\ Len(pending) > 1
  /\ pending' = Tail(pending)
  /\ LET b == Builder(pending[2], DEFAULT_VERSION, "")
         co == GitCheckout(head, prevHead, getTagName(b))
     IN  /\ cur' = [op |-> "build", name |-> b.name, version |-> DEFAULT_VERSION,
                    b |-> b]
         /\ head' = co[1]
         /\ prevHead' = co[2]
         /\ trace' = <<Event("git.checkout", getTagName(b))>>
  /\ pc' = "Builder.build"
  /\ err' = Null
  /\ idx' = 0
  /\ UNCHANGED <<manifest, manifestFile, pkgJson, fs, calls, recorded, required, peer>>

\* builder.build() has written its files and returned, or thrown
BuilderBuildReturns(r) ==
  /\ fs' = r.fs
  /\ required' = r.req
  /\ trace' = Append(trace, Event("Builder.build", cur.b.dir)) \o r.trace
  /\ err' = r.err
  /\ pc' = IF r.err # Null THEN "failed" ELSE "restore"

\* a Builder.build that records its version in the manifest itself
StepBuilderBuild_Records(bad) ==
  /\ pc = "Builder.build"
  /\ UNCHANGED <<pending, peer>>
  /\ BuilderBuildReturns(build(cur.b, fs, required, manifest, DependenciesAt(head),
                               head, bad))
  /\ manifest' = updateManifest(manifest, cur.b)
  /\ manifestFile' = manifest'
  /\ UNCHANGED <<pkgJson, head, prevHead, cur, idx, calls, recorded>>

\* a driver that restores the prior checkout when builder.build() throws
StepBuilderBuild_Finally(bad) ==
  /\ pc = "Builder.build"
  /\ UNCHANGED <<pending, peer>>
  /\ BuilderBuildReturns(build(cur.b, fs, required, manifest, DependenciesAt(head),
                               head, bad))
  /\ IF pc' = "failed"
       THEN head' = prevHead /\ prevHead' = head
       ELSE UNCHANGED <<head, prevHead>>
  /\ UNCHANGED <<manifest, manifestFile, pkgJson, cur, idx, calls, recorded>>

\* builder.build(); an error it throws ends the call
StepBuilderBuild(bad) ==
  /\ pc = "Builder.build"
  /\ UNCHANGED <<pending, peer>>
  /\ BuilderBuildReturns(build(cur.b, fs, required, manifest, DependenciesAt(head),
                               head, bad))
  /\ UNCHANGED <<manifest, manifestFile, pkgJson, head, prevHead, cur, idx, calls,
                 recorded>>

\* a driver that calls Bundler.updateDep before builder.updateManifest
StepRestore_SkipManifest ==
  /\ pc = "restore"
  /\ UNCHANGED <<required, pending, peer>>
  /\ LET co == GitCheckout(head, prevHead, "-")
     IN  head' = co[1] /\ prevHead' = co[2]
  /\ trace' = Append(trace, Event("git.checkout", "-"))
  /\ pc' = IF ~cur.b.isUmbrella /\ ~cur.b.isMaster THEN "updateDep"
           ELSE "updateManifest"
  /\ UNCHANGED <<manifest, manifestFile, pkgJson, fs, cur, idx, err, calls, recorded>>

\* git.checkout('-')
StepRestore ==
  /\ pc = "restore"
  /\ UNCHANGED <<required, pending, peer>>
  /\ LET co == GitCheckout(head, prevHead, "-")
     IN  head' = co[1] /\ prevHead' = co[2]
  /\ trace' = Append(trace, Event("git.checkout", "-"))
  /\ pc' = "updateManifest"
  /\ UNCHANGED <<manifest, manifestFile, pkgJson, fs, cur, idx, err, calls, recorded>>

\* the versions list of a package's manifest entry, empty without an entry
VersionsIn(modules, id) ==
  IF findWhere(modules, "id", id) = 0 THEN <<>>
  ELSE modules[findWhere(modules, "id", id)].versions

\* the versions one updateManifest call put into a list, in the order they
\* were put there: the list is created as [master] and grows at the front
RECURSIVE NewlyListed(_, _)
NewlyListed(old, new) ==
  IF Len(new) <= Len(old) THEN <<>>
  ELSE NewlyListed(old, Tail(new)) \o <<Head(new)>>

\* a driver that propagates the build of every package but the umbrella,
\* master builds included
StepUpdateManifest_NoMasterTest ==
  /\ pc = "updateManifest"
  /\ UNCHANGED <<required, pending, peer>>
  /\ manifest' = updateManifest(manifest, cur.b)
  /\ manifestFile' = manifest'
  /\ recorded' = recorded
  /\ trace' = Append(trace, Event("updateManifest", cur.b.version))
  /\ pc' = IF cur.op = "build" /\ ~cur.b.isUmbrella THEN "updateDep" ELSE "done"
  /\ UNCHANGED <<pkgJson, head, prevHead, fs, cur, idx, err, calls>>

\* an updateManifest that loads the manifest file again before it records
StepUpdateManifest_Reload ==
  /\ pc = "updateManifest"
  /\ UNCHANGED <<required, pending, peer>>
  /\ manifest' = updateManifest(manifestFile, cur.b)
  /\ manifestFile' = manifest'
  /\ recorded' = recorded
  /\ trace' = Append(trace, Event("updateManifest", cur.b.version))
  /\ pc' = IF cur.op = "build" /\ ~cur.b.isUmbrella /\ ~cur.b.isMaster
             THEN "updateDep" ELSE "done"
  /\ UNCHANGED <<pkgJson, head, prevHead, fs, cur, idx, err, calls>>

\* builder.updateManifest(), then the test of line 435
StepUpdateManifest ==
  /\ pc = "updateManifest"
  /\ UNCHANGED <<required, pending, peer>>
  /\ manifest' = updateManifest(manifest, cur.b)
  /\ manifestFile' = manifest'
  /\ recorded' = IF cur.b.isUmbrella
                   THEN recorded \o NewlyListed(VersionsIn(manifest, UMBRELLA_PACKAGE),
                                                VersionsIn(manifest', UMBRELLA_PACKAGE))
                   ELSE recorded
  /\ trace' = Append(trace, Event("updateManifest", cur.b.version))
                 \o (IF findWhere(manifest, "id", cur.b.name) = 0
                       THEN <<Event("modules.push", cur.b.name)>> ELSE <<>>)
                 \o (IF Len(VersionsIn(manifest', cur.b.name))
                          > (IF findWhere(manifest, "id", cur.b.name) = 0 THEN 1
                             ELSE Len(VersionsIn(manifest, cur.b.name)))
                       THEN <<Event("versions.unshift", cur.b.version)>> ELSE <<>>)
  /\ pc' = IF cur.op = "build" /\ ~cur.b.isUmbrella /\ ~cur.b.isMaster
             THEN "updateDep" ELSE "done"
  /\ UNCHANGED <<pkgJson, head, prevHead, fs, cur, idx, err, calls>>

\* a direct call of builder.updateManifest()
CallUpdateManifest(name, version) ==
  /\ pc = "idle"
  /\ UNCHANGED <<required, pending, peer>>
  /\ calls < MaxCalls
  /\ cur' = [op |-> "updateManifest", name |-> name, version |-> version,
             b |-> Builder(name, version, "")]
  /\ pc' = "updateManifest"
  /\ trace' = <<>>
  /\ err' = Null
  /\ idx' = 0
  /\ calls' = calls + 1
  /\ UNCHANGED <<manifest, manifestFile, pkgJson, head, prevHead, fs, recorded>>

(***************************************************************************)
(* Bundler.updateDep(builder) (lines 234-260).                             *)
(***************************************************************************)
\* a direct call of Bundler.updateDep(builder)
CallUpdateDep(name, version) ==
  /\ pc = "idle"
  /\ UNCHANGED <<required, pending, peer>>
  /\ calls < MaxCalls
  /\ cur' = [op |-> "updateDep", name |-> name, version |-> version,
             b |-> Builder(name, version, "")]
  /\ pc' = "updateDep"
  /\ trace' = <<>>
  /\ err' = Null
  /\ idx' = 0
  /\ calls' = calls + 1
  /\ UNCHANGED <<manifest, manifestFile, pkgJson, head, prevHead, fs, recorded>>

\* var bundleVersions = bundleConfig.versions
bundleVersions == VersionsIn(manifest, UMBRELLA_PACKAGE)

\* a loop that reads the list from its end
LoopVersion_Reverse(i) ==
  VersionsIn(manifest, UMBRELLA_PACKAGE)[Len(VersionsIn(manifest, UMBRELLA_PACKAGE)) - 1 - i]

\* bundleVersions[i]
LoopVersion(i) == bundleVersions[i + 1]

\* the loop test i < bundleVersions.length - 1
LoopTest(i) == i < Len(bundleVersions) - 1

\* an updateDep that looks the manifest entries up before it tests isMaster
StepUpdateDepEnter_LookupFirst ==
  /\ pc = "updateDep"
  /\ UNCHANGED <<required, pending, peer>>
  /\ trace' = Append(trace, Event("Bundler.updateDep", cur.b.version))
  /\ idx' = 0
  /\ IF findWhere(manifest, "id", UMBRELLA_PACKAGE) = 0
         \/ findWhere(manifest, "id", cur.b.name) = 0
       THEN /\ err' = "TypeError: Cannot read property 'versions' of null"
            /\ pc' = "failed"
       ELSE IF cur.b.isMaster
         THEN /\ err' = "Must supply valid version to update bundles with."
              /\ pc' = "failed"
         ELSE /\ err' = err
              /\ pc' = IF LoopTest(0) THEN "updateDep.loop" ELSE "done"
  /\ UNCHANGED <<manifest, manifestFile, pkgJson, head, prevHead, fs, cur, calls,
                 recorded>>

\* lines 235-246: the guard and the lookups before the loop
StepUpdateDepEnter ==
  /\ pc = "updateDep"
  /\ UNCHANGED <<required, pending, peer>>
  /\ trace' = Append(trace, Event("Bundler.updateDep", cur.b.version))
  /\ idx' = 0
  /\ IF cur.b.isMaster
       THEN /\ err' = "Must supply valid version to update bundles with."
            /\ pc' = "failed"
       ELSE IF findWhere(manifest, "id", UMBRELLA_PACKAGE) = 0
                 \/ findWhere(manifest, "id", cur.b.name) = 0
         THEN /\ err' = "TypeError: Cannot read property 'versions' of null"
              /\ pc' = "failed"
         ELSE /\ err' = err
              /\ pc' = IF LoopTest(0) THEN "updateDep.loop" ELSE "done"
  /\ UNCHANGED <<manifest, manifestFile, pkgJson, head, prevHead, fs, cur, calls,
                 recorded>>

\* a loop that goes on to the next version where the code breaks
StepUpdateDepIter_Continue ==
  /\ pc = "updateDep.loop"
  /\ UNCHANGED <<pending, peer>>
  /\ LET versions == FilterValid(VersionsIn(manifest, cur.b.name))
         bundler == Bundler(Str(LoopVersion(idx)))
         tag == getTagName(bundler)
         there == GitCheckout(head, prevHead, tag)
         deps == getDeps(DependenciesAt(there[1]))
         dep == findWhere(deps, "name", cur.b.name)
         back == GitCheckout(there[1], there[2], "-")
         examined == trace \o <<Event("git.checkout", tag),
                                Event("getDeps", bundler.version),
                                Event("git.checkout", "-")>>
     IN  /\ head' = back[1]
         /\ prevHead' = back[2]
         /\ idx' = idx + 1
         /\ pc' = IF LoopTest(idx + 1) THEN "updateDep.loop" ELSE "done"
         /\ err' = err
         /\ IF dep # 0 /\ MaxSatisfying(versions, deps[dep].version) = cur.b.version
              THEN /\ fs' = add(bundler, cur.b, fs, required).fs
                   /\ required' = add(bundler, cur.b, fs, required).req
                   /\ trace' = Append(examined, Event("Bundler.add", bundler.version))
              ELSE /\ fs' = fs
                   /\ required' = required
                   /\ trace' = examined
  /\ UNCHANGED <<manifest, manifestFile, pkgJson, cur, calls, recorded>>

\* an updateDep that adds the docs before it restores the working tree
StepUpdateDepIter_AddOnTag ==
  /\ pc = "updateDep.loop"
  /\ UNCHANGED <<pending, peer>>
  /\ LET versions == FilterValid(VersionsIn(manifest, cur.b.name))
         bundler == Bundler(Str(LoopVersion(idx)))
         tag == getTagName(bundler)
         there == GitCheckout(head, prevHead, tag)
         deps == getDeps(DependenciesAt(there[1]))
         dep == findWhere(deps, "name", cur.b.name)
         back == GitCheckout(there[1], there[2], "-")
         examined == trace \o <<Event("git.checkout", tag),
                                Event("getDeps", bundler.version)>>
     IN  /\ head' = back[1]
         /\ prevHead' = back[2]
         /\ IF dep = 0
              THEN /\ err' = "TypeError: Cannot read property 'version' of null"
                   /\ pc' = "failed"
                   /\ UNCHANGED <<fs, required, idx>>
                   /\ trace' = Append(examined, Event("git.checkout", "-"))
              ELSE IF MaxSatisfying(versions, deps[dep].version) # cur.b.version
                THEN /\ pc' = "done"
                     /\ UNCHANGED <<fs, required, idx, err>>
                     /\ trace' = Append(examined, Event("git.checkout", "-"))
                ELSE /\ fs' = add(bundler, cur.b, fs, required).fs
                     /\ required' = add(bundler, cur.b, fs, required).req
                     /\ trace' = examined \o <<Event("Bundler.add", bundler.version),
                                               Event("git.checkout", "-")>>
                     /\ idx' = idx + 1
                     /\ pc' = IF LoopTest(idx + 1) THEN "updateDep.loop" ELSE "done"
                     /\ err' = err
  /\ UNCHANGED <<manifest, manifestFile, pkgJson, cur, calls, recorded>>

\* an updateDep that removes the docs it has added when it fails
StepUpdateDepIter_Rollback ==
  /\ pc = "updateDep.loop"
  /\ UNCHANGED <<pending, peer>>
  /\ LET versions == FilterValid(VersionsIn(manifest, cur.b.name))
         bundler == Bundler(Str(LoopVersion(idx)))
         tag == getTagName(bundler)
         there == GitCheckout(head, prevHead, tag)
         deps == getDeps(DependenciesAt(there[1]))
         dep == findWhere(deps, "name", cur.b.name)
         back == GitCheckout(there[1], there[2], "-")
         examined == trace \o <<Event("git.checkout", tag),
                                Event("getDeps", bundler.version),
                                Event("git.checkout", "-")>>
         added == {PathJoin(PathJoin(Bundler(Str(uv)).dir, cur.b.name), x) :
                     uv \in UmbrellaVersions \cup {DEFAULT_VERSION}, x \in OutputNames}
     IN  /\ head' = back[1]
         /\ prevHead' = back[2]
         /\ IF dep = 0
              THEN /\ err' = "TypeError: Cannot read property 'version' of null"
                   /\ pc' = "failed"
                   /\ fs' = [q \in DOMAIN fs \ added |-> fs[q]]
                   /\ UNCHANGED <<required, idx>>
                   /\ trace' = examined
              ELSE IF MaxSatisfying(versions, deps[dep].version) # cur.b.version
                THEN /\ pc' = "done"
                     /\ UNCHANGED <<fs, required, idx, err>>
                     /\ trace' = examined
                ELSE /\ fs' = add(bundler, cur.b, fs, required).fs
                     /\ required' = add(bundler, cur.b, fs, required).req
                     /\ trace' = Append(examined, Event("Bundler.add", bundler.version))
                     /\ idx' = idx + 1
                     /\ pc' = IF LoopTest(idx + 1) THEN "updateDep.loop" ELSE "done"
                     /\ err' = err
  /\ UNCHANGED <<manifest, manifestFile, pkgJson, cur, calls, recorded>>

\* one iteration of the loop of lines 248-259, and the loop test after it
StepUpdateDepIter ==
  /\ pc = "updateDep.loop"
  /\ UNCHANGED <<pending, peer>>
  /\ LET versions == FilterValid(VersionsIn(manifest, cur.b.name))
         bundler == Bundler(Str(LoopVersion(idx)))
         tag == getTagName(bundler)
         there == GitCheckout(head, prevHead, tag)
         deps == getDeps(DependenciesAt(there[1]))
         dep == findWhere(deps, "name", cur.b.name)
         back == GitCheckout(there[1], there[2], "-")
         examined == trace \o <<Event("git.checkout", tag),
                                Event("getDeps", bundler.version),
                                Event("git.checkout", "-")>>
     IN  /\ head' = back[1]
         /\ prevHead' = back[2]
         /\ IF dep = 0
              THEN /\ err' = "TypeError: Cannot read property 'version' of null"
                   /\ pc' = "failed"
                   /\ UNCHANGED <<fs, required, idx>>
                   /\ trace' = examined
              ELSE IF MaxSatisfying(versions, deps[dep].version) # cur.b.version
                THEN /\ pc' = "done"
                     /\ UNCHANGED <<fs, required, idx, err>>
                     /\ trace' = examined
                ELSE /\ fs' = add(bundler, cur.b, fs, required).fs
                     /\ required' = add(bundler, cur.b, fs, required).req
                     /\ trace' = Append(examined, Event("Bundler.add", bundler.version))
                     /\ idx' = idx + 1
                     /\ pc' = IF LoopTest(idx + 1) THEN "updateDep.loop" ELSE "done"
                     /\ err' = err
  /\ UNCHANGED <<manifest, manifestFile, pkgJson, cur, calls, recorded>>

\* the operating system takes the running build process off the processor
\* and runs the other one: each process has its own memory (its manifest
\* object, its module cache, its position), both share the files and the
\* working tree
Switch ==
  /\ peer' = Process(manifest, pc, cur, idx, trace, err, required, pending)
  /\ manifest' = peer.manifest
  /\ pc' = peer.pc
  /\ cur' = peer.cur
  /\ idx' = peer.idx
  /\ trace' = peer.trace
  /\ err' = peer.err
  /\ required' = peer.required
  /\ pending' = peer.pending
  /\ UNCHANGED <<manifestFile, pkgJson, head, prevHead, fs, calls, recorded>>

\* the call returns and its locals are gone; a call that threw (pc = "failed")
\* ends the process with the uncaught error
Return ==
  /\ pc = "done"
  /\ UNCHANGED <<required, peer>>
  /\ Len(pending) <= 1
  /\ pending' = <<>>
  /\ pc' = "idle"
  /\ cur' = NoCall
  /\ trace' = <<>>
  /\ err' = Null
  /\ idx' = 0
  /\ UNCHANGED <<manifest, manifestFile, pkgJson, head, prevHead, fs, calls, recorded>>

\* a direct call of new Bundler(version).bundle()
CallBundle(version) ==
  /\ pc = "idle"
  /\ UNCHANGED <<required, pending, peer>>
  /\ calls < MaxCalls
  /\ cur' = [op |-> "bundle", name |-> UMBRELLA_PACKAGE, version |-> version,
             b |-> Bundler(Str(version))]
  /\ pc' = "Bundler.bundle"
  /\ trace' = <<>>
  /\ err' = Null
  /\ idx' = 0
  /\ calls' = calls + 1
  /\ UNCHANGED <<manifest, manifestFile, pkgJson, head, prevHead, fs, recorded>>

\* require() of a file that is neither loaded nor on disk
CannotFindModule == "Error: Cannot find module"

\* bundle() has returned or thrown
BundleReturns(r) ==
  /\ fs' = r.fs
  /\ required' = r.req
  /\ trace' = Append(trace, Event("Bundler.bundle", cur.b.dir)) \o r.trace
  /\ err' = r.err
  /\ pc' = IF r.err # Null THEN "failed" ELSE "done"

\* Bundler.prototype.bundle on the working tree as it is; getTypes() of line
\* 305 throws when the umbrella's type dictionary was never built
StepBundle(bad) ==
  /\ pc = "Bundler.bundle"
  /\ UNCHANGED <<pending, peer>>
  /\ IF PathJoin(cur.b.dir, TYPES_DICT) \in DOMAIN required \cup DOMAIN fs
       THEN BundleReturns(bundle(cur.b, fs, required, manifest,
                                 DependenciesAt(head), head, bad))
       ELSE /\ err' = CannotFindModule
            /\ pc' = "failed"
            /\ trace' = Append(trace, Event("Bundler.bundle", cur.b.dir))
            /\ UNCHANGED <<fs, required>>
  /\ UNCHANGED <<manifest, manifestFile, pkgJson, head, prevHead, cur, idx, calls,
                 recorded>>

\* the script is run again: a new process with an empty module cache, which
\* loads the manifest file
NewProcess ==
  /\ pc = "idle"
  /\ required # NoFiles
  /\ required' = NoFiles
  /\ manifest' = manifestFile
  /\ UNCHANGED <<manifestFile, pkgJson, head, prevHead, fs, pc, cur, idx, trace, err,
                 calls, recorded, pending, peer>>

(***************************************************************************)
(* The specification.                                                      *)
(***************************************************************************)
\* the exported driver: any sequence of build(name, version) and buildAll()
\* calls
Next ==
  \/ \E name \in Packages : \E version \in VersionArgs(name) : CallBuild(name, version)
  \/ CallBuildAll
  \/ StepNextModule
  \/ \E bad \in AllSrcPaths \cup {Null} : StepBuilderBuild(bad)
  \/ StepRestore
  \/ StepUpdateManifest
  \/ StepUpdateDepEnter
  \/ StepUpdateDepIter
  \/ Return

Spec == Init /\ [][Next]_vars

\* the methods called one by one: any sequence of builder.updateManifest() and
\* Bundler.updateDep(builder) calls
NextMethods ==
  \/ \E name \in Packages : \E version \in VersionArgs(name) :
       CallUpdateManifest(name, version)
  \/ \E name \in Packages : \E version \in VersionArgs(name) :
       CallUpdateDep(name, version)
  \/ StepUpdateManifest
  \/ StepUpdateDepEnter
  \/ StepUpdateDepIter
  \/ Return

SpecMethods == Init /\ [][NextMethods]_vars

\* two build processes started on the same manifest file, in any
\* interleaving; each runs the steps of build() that read or write the
\* manifest, builder.updateManifest() and Bundler.updateDep(builder)
NextRace ==
  \/ \E name \in Packages : \E version \in VersionArgs(name) :
       CallUpdateManifest(name, version)
  \/ \E name \in Packages : \E version \in VersionArgs(name) :
       CallUpdateDep(name, version)
  \/ StepUpdateManifest
  \/ StepUpdateDepEnter
  \/ StepUpdateDepIter
  \/ Return
  \/ Switch

SpecRace == Init /\ [][NextRace]_vars

\* the umbrella package built and bundled: any sequence of
\* build("google-cloud", version) and new Bundler(version).bundle() calls, in
\* the running process or in a new one
NextBundle ==
  \/ \E version \in VersionArgs(UMBRELLA_PACKAGE) : CallBuild(UMBRELLA_PACKAGE, version)
  \/ \E version \in VersionArgs(UMBRELLA_PACKAGE) \ {Undefined} : CallBundle(version)
  \/ \E bad \in AllSrcPaths \cup {Null} : StepBuilderBuild(bad)
  \/ \E bad \in AllSrcPaths \cup {Null} : StepBundle(bad)
  \/ StepRestore
  \/ StepUpdateManifest
  \/ NewProcess
  \/ Return

SpecBundle == Init /\ [][NextBundle]_vars

(***************************************************************************)
(* Properties.                                                             *)
(***************************************************************************)
\* the tag name the contract gives for the arguments of new Builder
ExpectedTag(name, version) ==
  IF version = DEFAULT_VERSION \/ version = Undefined THEN DEFAULT_VERSION
  ELSE IF name = UMBRELLA_PACKAGE THEN "v" \o version
  ELSE name \o "-" \o version

NoDuplicates(versions) ==
  \A i, j \in 1..Len(versions) : versions[i] = versions[j] => i = j

\* C2: updateManifest is idempotent: after any sequence of updateManifest
\* calls, calling it again for a (package, version) pair the manifest already
\* records leaves the module list and every versions list unchanged, and no
\* versions list holds the same version twice.
C2_Idempotent ==
  \A k \in 1..Len(manifest) :
    /\ NoDuplicates(manifest[k].versions)
    /\ \A i \in 1..Len(manifest[k].versions) :
         updateManifest(manifest,
                        Builder(manifest[k].id, manifest[k].versions[i], ""))
           = manifest

\* an updateManifest call for a pair already recorded has run: it pushed no
\* module and put no version in front
C2_Witness ==
  /\ pc = "done"
  /\ cur.op = "updateManifest"
  /\ cur.name = "bigtable"
  /\ cur.version = "0.4.1"
  /\ calls = 2
  /\ trace = <<Event("updateManifest", "0.4.1")>>

\* C3: after any sequence of updateManifest calls for any packages in any
\* order, from a manifest whose umbrella entry is absent or first, the
\* umbrella entry (if present) is the first element of manifest.modules.
C3_UmbrellaFirst ==
  \A k \in 1..Len(manifest) : manifest[k].id = UMBRELLA_PACKAGE => k = 1

\* the umbrella entry was pushed behind another entry and sorted to the front
C3_Witness ==
  /\ pc = "done"
  /\ cur.op = "updateManifest"
  /\ cur.name = UMBRELLA_PACKAGE
  /\ calls = 1
  /\ Len(manifest) = 2
  /\ manifest[1].id = UMBRELLA_PACKAGE
  /\ manifest[2].id = "vision"

(***************************************************************************)
(* What a run of Bundler.updateDep did, read off the trace and the files.  *)
(***************************************************************************)
Elems(seq) == {seq[k] : k \in 1..Len(seq)}

\* the position of the Bundler.updateDep event in the trace, 0 when absent
UpdateDepAt ==
  IF \E k \in 1..Len(trace) : trace[k].op = "Bundler.updateDep"
    THEN CHOOSE k \in 1..Len(trace) : trace[k].op = "Bundler.updateDep"
    ELSE 0

IsGetDeps(e) == e.op = "getDeps"
IsAdd(e) == e.op = "Bundler.add"

RECURSIVE Args(_)
Args(events) ==
  IF events = <<>> THEN <<>> ELSE <<Head(events).arg>> \o Args(Tail(events))

\* the steps Bundler.updateDep has taken
UpdateDepSteps ==
  IF UpdateDepAt = 0 THEN <<>> ELSE SubSeq(trace, UpdateDepAt + 1, Len(trace))

\* the umbrella versions updateDep examined, and those it added docs to
Examined == Args(SelectSeq(UpdateDepSteps, IsGetDeps))
Added == Args(SelectSeq(UpdateDepSteps, IsAdd))

\* the range umbrella version uv declares for a package, Null when none
DeclaredRange(uv, name) ==
  LET deps == pkgJson[IF uv = DEFAULT_VERSION THEN uv ELSE "v" \o uv]
      hits == {k \in 1..Len(deps) : deps[k].key = "@google-cloud/" \o name}
  IN  IF hits = {} THEN Null ELSE deps[CHOOSE k \in hits : TRUE].range

\* the maximum satisfying version among a package's recorded valid versions
ResolvedVersion(name, range) ==
  LET sat == {v \in Elems(VersionsIn(manifest, name)) :
                SemverValid(v) /\ SemverSatisfies(v, range)}
  IN  IF sat = {} THEN Null
      ELSE CHOOSE v \in sat :
             \A w \in sat : SemverCompare(SemverParse(w), SemverParse(v)) <= 0

\* umbrella version uv's declared range resolves to the version just built
Resolves(uv) ==
  /\ DeclaredRange(uv, cur.b.name) # Null
  /\ ResolvedVersion(cur.b.name, DeclaredRange(uv, cur.b.name)) = cur.b.version

\* the paths of the output tree of umbrella version uv
BundleTree(uv) ==
  LET dir == PathJoin(DOCS_ROOT, PathJoin(UMBRELLA_PACKAGE, uv))
  IN  {PathJoin(dir, x) : x \in OutputNames}
        \cup {PathJoin(dir, PathJoin(n, x)) : n \in Packages, x \in OutputNames}

\* this step writes into the output tree of umbrella version uv
WritesInto(uv) ==
  \/ \E p \in BundleTree(uv) \cap DOMAIN fs' : p \notin DOMAIN fs \/ fs'[p] # fs[p]
  \/ /\ Len(trace') > Len(trace)
     /\ trace'[Len(trace')] = Event("Bundler.add", uv)

\* C4: Bundler.updateDep(builder) never adds docs to (never writes into the
\* output tree of) an umbrella version whose declared range for builder.name
\* resolves, as the maximum satisfying version among the package's recorded
\* valid versions, to a version other than builder.version.
C4_OnlyResolved ==
  [][(pc = "updateDep" \/ pc = "updateDep.loop") =>
       (\A uv \in UmbrellaVersions \cup {DEFAULT_VERSION} :
          WritesInto(uv) => Resolves(uv))]_vars

\* the spec's example has run: bigtable 0.4.1 went into the 0.45.0 bundle
C4_Witness ==
  /\ pc = "done"
  /\ cur.op = "build"
  /\ cur.name = "bigtable"
  /\ cur.version = "0.4.1"
  /\ Added = <<"0.45.0">>
  /\ fs["docs/json/google-cloud/0.45.0/bigtable/index.json"].ref = "bigtable-0.4.1"
  /\ DeclaredRange("0.44.0", "bigtable") = "^0.3.0"

\* the positions in the umbrella's list whose version does not resolve to the
\* version just built
Unresolved == {k \in 1..Len(bundleVersions) : ~Resolves(bundleVersions[k])}

FirstUnresolved ==
  IF Unresolved = {} THEN Len(bundleVersions) + 1
  ELSE CHOOSE k \in Unresolved : \A j \in Unresolved : k <= j

PositionOf(v) == CHOOSE k \in 1..Len(bundleVersions) : bundleVersions[k] = v

\* C5: Bundler.updateDep stops at the first umbrella version, in the order it
\* walks the list, for which the just-built version is not the resolved
\* maximum: that version and every version after it in the list receive no
\* docs, even if a later one's range would resolve to the just-built version.
\* For versions ["0.45.0", "0.44.0"] with ranges ^0.4.0 and ^0.3.0, building
\* bigtable 0.4.1 updates 0.45.0 only.
C5_StopsAtFirst ==
  /\ UpdateDepAt # 0 =>
       /\ \A v \in Elems(Added) : PositionOf(v) < FirstUnresolved
       /\ \A v \in Elems(Examined) : PositionOf(v) <= FirstUnresolved
  /\ ( /\ pc = "done"
       /\ UpdateDepAt # 0
       /\ cur.b.name = "bigtable"
       /\ cur.b.version = "0.4.1"
       /\ bundleVersions = <<"0.45.0", "0.44.0">>
       /\ DeclaredRange("0.45.0", "bigtable") = "^0.4.0"
       /\ DeclaredRange("0.44.0", "bigtable") = "^0.3.0" )
     => Added = <<"0.45.0">>

\* updateDep stopped before a version whose range resolves to the built one
C5_Witness ==
  /\ pc = "done"
  /\ UpdateDepAt # 0
  /\ Added = <<>>
  /\ Examined = <<"0.45.0">>
  /\ bundleVersions = <<"0.45.0", "0.44.0", "master">>
  /\ Resolves("0.44.0")

MustSupplyVersion == "Must supply valid version to update bundles with."

HasCheckout == \E k \in 1..Len(trace) : trace[k].op = "git.checkout"

\* C6: Bundler.updateDep called with a Builder whose version is the default
\* ("master") fails with an explicit error, before any source-control
\* checkout, any file write and any manifest change.
C6_MasterRejected ==
  [][(pc = "updateDep" /\ cur.b.isMaster) =>
       /\ pc' = "failed"
       /\ err' = MustSupplyVersion
       /\ trace' = Append(trace, Event("Bundler.updateDep", DEFAULT_VERSION))
       /\ UNCHANGED <<head, prevHead, fs, manifest, manifestFile>>]_vars

\* updateDep has rejected a master Builder, on a manifest without any entry
C6_Witness ==
  /\ pc = "failed"
  /\ cur.op = "updateDep"
  /\ cur.version = Undefined
  /\ cur.b.isMaster
  /\ err = MustSupplyVersion
  /\ ~HasCheckout
  /\ manifest = <<>>

\* the steps of build() itself, without those inside Builder.build and
\* Bundler.updateDep
IsMainStep(e) ==
  \/ e.op \in {"git.checkout", "updateManifest", "Bundler.updateDep"}
  \/ e.op = "Builder.build" /\ e.arg = cur.b.dir

MainSteps == SelectSeq(trace, IsMainStep)

BuildOrder ==
  <<Event("git.checkout", ExpectedTag(cur.name, cur.version)),
    Event("Builder.build", cur.b.dir),
    Event("git.checkout", "-"),
    Event("updateManifest", cur.b.version),
    Event("Bundler.updateDep", cur.b.version)>>

\* C7: in every successful build(name, version) the steps occur in this
\* order: checkout of the builder's tag, Builder.build, restore of the prior
\* checkout, updateManifest, and only then (when applicable)
\* Bundler.updateDep; so the manifest already records the built version when
\* updateDep resolves maximum satisfying versions.
C7_BuildOrder ==
  cur.op = "build" =>
    /\ \A k \in 1..Len(MainSteps) : k <= 5 => MainSteps[k] = BuildOrder[k]
    /\ pc = "done" => Len(MainSteps) >= 4
    /\ UpdateDepAt # 0 =>
         cur.b.version \in Elems(VersionsIn(manifest, cur.b.name))

\* a build of a dependency has gone through all five steps and added docs
C7_Witness ==
  /\ pc = "done"
  /\ cur.op = "build"
  /\ cur.name = "bigtable"
  /\ cur.version = "0.4.1"
  /\ SubSeq(MainSteps, 1, 5) = BuildOrder
  /\ Added # <<>>

\* C8: the in-memory manifest is mutated only by updateManifest:
\* Builder.build, getTagName, Bundler.add, Bundler.bundle (with the
\* dependency builds it runs) and Bundler.updateDep leave the manifest's
\* modules and versions lists unchanged.
C8_OnlyUpdateManifest ==
  [][(manifest' # manifest \/ manifestFile' # manifestFile) =>
       (pc = "updateManifest"
          /\ trace'[Len(trace) + 1] = Event("updateManifest", cur.b.version))]_vars

\* an umbrella build has bundled a dependency, the manifest as it was loaded
C8_Witness ==
  /\ pc = "restore"
  /\ cur.b.isUmbrella
  /\ \E k \in 1..Len(trace) : trace[k].op = "Bundler.add"
  /\ calls = 1
  /\ manifest \in InitialManifests

\* umbrella version a was recorded in the manifest before umbrella version b:
\* a was listed when the manifest was loaded and b was recorded since, or
\* updateManifest recorded both, a first
RecordedBefore(a, b) ==
  \/ a \notin Elems(recorded) /\ b \in Elems(recorded)
  \/ \E i, j \in 1..Len(recorded) : i < j /\ recorded[i] = a /\ recorded[j] = b

\* C9 as stated: Bundler.updateDep walks the umbrella's known versions from
\* oldest to newest: of any two umbrella versions it examines, the one
\* recorded in the manifest earlier (the older one) is examined first.
C9_OldestFirst ==
  \A i, j \in 1..Len(Examined) :
    i < j => ~RecordedBefore(Examined[j], Examined[i])

\* C9 as amended: Bundler.updateDep walks the umbrella's versions in the
\* order of the manifest's list, newest to oldest: of any two umbrella
\* versions it examines, the one recorded in the manifest later (the newer
\* one) is examined first.
C9_NewestFirst ==
  /\ Len(Examined) <= Len(bundleVersions)
  /\ \A k \in 1..Len(Examined) : Examined[k] = bundleVersions[k]
  /\ \A i, j \in 1..Len(Examined) :
       i < j => ~RecordedBefore(Examined[i], Examined[j])

\* updateDep examined a version recorded in this run, then one loaded with
\* the manifest
C9_Witness ==
  /\ Len(Examined) = 2
  /\ RecordedBefore(Examined[2], Examined[1])
  /\ recorded = <<"0.45.0">>

\* C10: Bundler.updateDep iterates over all known umbrella versions: every
\* listed umbrella version other than "master", whatever its position in the
\* list, is examined and receives the new docs provided the just-built
\* version is the maximum satisfying version for its declared range and for
\* the range of every version examined before it.
C10_AllExamined ==
  (pc = "done" /\ UpdateDepAt # 0) =>
    \A k \in 1..Len(bundleVersions) :
      ( /\ bundleVersions[k] # DEFAULT_VERSION
        /\ Resolves(bundleVersions[k])
        /\ \A v \in Elems(Examined) : Resolves(v) )
      => /\ bundleVersions[k] \in Elems(Examined)
         /\ bundleVersions[k] \in Elems(Added)

\* some umbrella version (or master) declares the package as a dependency
IsDependency(name) ==
  \E uv \in UmbrellaVersions \cup {DEFAULT_VERSION} : DeclaredRange(uv, name) # Null

\* C11: build(name, version) of a versioned package invokes Bundler.updateDep
\* when, and only when, the built package is a dependency of the umbrella
\* package; building a versioned package that no umbrella version declares as
\* a dependency completes without attempting propagation.
C11_OnlyDependency ==
  (cur.op = "build" /\ ~cur.b.isUmbrella /\ ~cur.b.isMaster) =>
    /\ UpdateDepAt # 0 => IsDependency(cur.b.name)
    /\ (pc = "done" /\ IsDependency(cur.b.name)) => UpdateDepAt # 0
    /\ (pc = "failed" /\ ~IsDependency(cur.b.name)) => UpdateDepAt = 0

\* C12: Builder.getTagName throws an error when the Builder's version is not
\* set (the Builder was constructed without a version): a build called
\* without a version fails at getTagName, before its checkout.
C12_ThrowsWithoutVersion ==
  (cur.op = "build" /\ cur.version = Undefined) =>
    /\ pc = "failed"
    /\ err # Null
    /\ ~HasCheckout

\* the error Builder.parseFile throws for a source file
ParseError(file) ==
  "Unable to generate docs for file: " \o file \o ". Reason: " \o ParseErrorMessage

IsRestore(e) == e = Event("git.checkout", "-")

\* C13: if Builder.build throws during build(name, version), the build stops
\* immediately with no retry: the restore of the prior checkout is never
\* executed (the working tree stays on the tag last checked out), the
\* manifest in memory and on disk is as it was when build was called, and
\* Bundler.updateDep is not invoked.
C13_BuildThrows ==
  [][/\ (pc = "Builder.build" /\ err' # Null) =>
          /\ pc' = "failed"
          /\ head' = ExpectedTag(cur.name, cur.version)
          /\ UNCHANGED <<head, prevHead, manifest, manifestFile>>
          /\ \A k \in 1..Len(trace') :
               /\ ~IsRestore(trace'[k])
               /\ trace'[k].op \notin {"updateManifest", "Bundler.updateDep"}
     /\ pc' = "Builder.build" => UNCHANGED <<manifest, manifestFile>>
     /\ pc # "failed"]_vars

\* a build of bigtable 0.4.0 has stopped on its second source file
C13_Witness ==
  /\ pc = "failed"
  /\ cur.op = "build"
  /\ cur.name = "bigtable"
  /\ cur.version = "0.4.0"
  /\ err = ParseError("bigtable/src/table.js")
  /\ head = "bigtable-0.4.0"
  /\ prevHead = "master"
  /\ manifestFile = manifest
  /\ manifest \in InitialManifests

\* this step leaves the file at path p as it was
NotWritten(p) ==
  IF p \in DOMAIN fs THEN p \in DOMAIN fs' /\ fs'[p] = fs[p] ELSE p \notin DOMAIN fs'

\* the output directory of the Builder.build that ran last in this step
LastBuildDir == trace'[Len(trace')].arg

\* C14: if parsing any source file fails during Builder.build, an error
\* naming that file propagates out of build; the JSON files of the source
\* files parsed before it remain written (nothing is discarded), while the
\* type dictionary and the table of contents of that build are not written
\* and, for the umbrella package, no bundle is started.
C14_ParseFailure ==
  [][\A n \in Packages : \A k \in 1..Len(SrcFiles(n)) :
       (pc = "Builder.build" /\ err' = ParseError(SrcPath(n, SrcFiles(n)[k]))) =>
         /\ pc' = "failed"
         /\ trace'[Len(trace')].op = "Builder.build"
         /\ \A j \in 1..(k - 1) :
              /\ PathJoin(LastBuildDir, OutputFile(SrcFiles(n)[j])) \in DOMAIN fs'
              /\ fs'[PathJoin(LastBuildDir, OutputFile(SrcFiles(n)[j]))].src
                   = SrcFiles(n)[j]
              /\ fs'[PathJoin(LastBuildDir, OutputFile(SrcFiles(n)[j]))].ref = head
         /\ NotWritten(PathJoin(LastBuildDir, OutputFile(SrcFiles(n)[k])))
         /\ NotWritten(PathJoin(LastBuildDir, TYPES_DICT))
         /\ NotWritten(PathJoin(LastBuildDir, TOC))
         /\ DOMAIN fs \subseteq DOMAIN fs'
         /\ n = UMBRELLA_PACKAGE =>
              /\ LastBuildDir = cur.b.dir
              /\ \A i \in 1..Len(trace') : trace'[i].op # "git.submodule"]_vars

\* the second source file of bigtable failed to parse: the JSON of the first
\* is written, the type dictionary and the TOC are not
C14_Witness ==
  /\ pc = "failed"
  /\ cur.op = "build"
  /\ cur.name = "bigtable"
  /\ err = ParseError("bigtable/src/table.js")
  /\ PathJoin(cur.b.dir, "index.json") \in DOMAIN fs
  /\ PathJoin(cur.b.dir, "table.json") \notin DOMAIN fs
  /\ PathJoin(cur.b.dir, TYPES_DICT) \notin DOMAIN fs
  /\ PathJoin(cur.b.dir, TOC) \notin DOMAIN fs

\* package.json at ref declares @google-cloud/<name>
Declares(ref, name) ==
  \E k \in 1..Len(pkgJson[ref]) : pkgJson[ref][k].key = "@google-cloud/" \o name

HasEntry(name) == \E j \in 1..Len(manifest) : manifest[j].id = name

NullVersions == "TypeError: Cannot read property 'versions' of null"

\* C15: Bundler.bundle fails with a fatal error when any @google-cloud
\* dependency declared by the umbrella package has no entry in the manifest,
\* and the failure happens before the submodule checkout is created, before
\* any dependency is built and before the combined type dictionary or TOC is
\* written.
C15_MissingEntry ==
  ( /\ cur.op = "build"
    /\ cur.b.isUmbrella
    /\ pc \in {"restore", "failed"}
    /\ \E n \in Packages : Declares(head, n) /\ ~HasEntry(n) )
  => /\ pc = "failed"
     /\ err \in {NullVersions, ParseError(SrcPath(UMBRELLA_PACKAGE, "index.js"))}
     /\ \A k \in 1..Len(trace) :
          /\ trace[k].op \notin {"git.submodule", "submodule.checkout", "Bundler.add",
                                  "git.deinit"}
          /\ trace[k].op = "Builder.build" => trace[k].arg = cur.b.dir
     /\ DOMAIN fs \cap SubmoduleTree = {}
     /\ err = NullVersions =>
          /\ fs[PathJoin(cur.b.dir, TOC)].bundle = FALSE
          /\ \A k \in 1..Len(fs[PathJoin(cur.b.dir, TYPES_DICT)]) :
               fs[PathJoin(cur.b.dir, TYPES_DICT)][k].name = UMBRELLA_PACKAGE

\* the umbrella declares bigtable and vision, the manifest has no entry for
\* vision: bundle failed after the umbrella's own files were written
C15_Witness ==
  /\ pc = "failed"
  /\ cur.op = "build"
  /\ cur.b.isUmbrella
  /\ err = NullVersions
  /\ Declares(head, "bigtable") /\ HasEntry("bigtable")
  /\ Declares(head, "vision") /\ ~HasEntry("vision")
  /\ fs[PathJoin(cur.b.dir, TOC)].bundle = FALSE

\* the type entries of a package's own source files, with the given prefix
TypesOf(name, prefix) ==
  [k \in 1..Len(SrcFiles(name)) |->
     [name |-> name, contents |-> PathJoin(prefix, OutputFile(SrcFiles(name)[k]))]]

\* the entries of the @google-cloud dependencies among the declared ones, in
\* the order of their declaration, each prefixed by the dependency's name
RECURSIVE DepTypes(_)
DepTypes(declared) ==
  IF declared = <<>> THEN <<>>
  ELSE (IF \E n \in Packages : Head(declared).key = "@google-cloud/" \o n
          THEN LET n == CHOOSE n \in Packages : Head(declared).key = "@google-cloud/" \o n
               IN  TypesOf(n, n)
          ELSE <<>>)
         \o DepTypes(Tail(declared))

\* the tags of the resolved versions of the declared dependencies, in order
RECURSIVE DepTags(_)
DepTags(declared) ==
  IF declared = <<>> THEN <<>>
  ELSE (IF \E n \in Packages : Head(declared).key = "@google-cloud/" \o n
          THEN LET n == CHOOSE n \in Packages : Head(declared).key = "@google-cloud/" \o n
                   v == ResolvedVersion(n, Head(declared).range)
               IN  <<IF v = Null THEN DEFAULT_VERSION ELSE n \o "-" \o v>>
          ELSE <<>>)
         \o DepTags(Tail(declared))

IsSubmoduleCheckout(e) == e.op = "submodule.checkout"

\* C16: after a successful Bundler.bundle, the umbrella's written type
\* dictionary is exactly the umbrella's own type entries followed, in
\* dependency order, by every type entry of each dependency built at its
\* resolved version (the maximum recorded valid version satisfying the
\* declared range), each dependency entry having its contents path prefixed
\* by the dependency name; no entry is dropped and umbrella entries are not
\* prefixed.
C16_TypeDictionary ==
  (cur.op = "build" /\ cur.b.isUmbrella /\ pc = "restore") =>
    /\ fs[PathJoin(cur.b.dir, TYPES_DICT)]
         = TypesOf(UMBRELLA_PACKAGE, "") \o DepTypes(pkgJson[head])
    /\ Args(SelectSeq(trace, IsSubmoduleCheckout)) = DepTags(pkgJson[head])

\* the names of the JSON doc files in a Builder's output directory, without
\* the type dictionary and the TOC
DocNames(dir) ==
  {x \in OutputNames \ {TYPES_DICT, TOC, "faq.md"} : PathJoin(dir, x) \in DOMAIN fs}

\* the step calls Bundler.add for the Builder of the running call
AddsTo(uv) ==
  /\ pc = "updateDep.loop"
  /\ Len(trace') > Len(trace)
  /\ trace'[Len(trace')] = Event("Bundler.add", uv)

\* the output directory of umbrella version uv
BundleDir(uv) == PathJoin(DOCS_ROOT, PathJoin(UMBRELLA_PACKAGE, uv))

C18_LostUpdate ==
  [][manifestFile' # manifestFile =>
       /\ pc = "updateManifest"
       /\ manifestFile' = manifest'
       /\ \A n \in Packages :
            Elems(VersionsIn(manifestFile', n))
              \subseteq Elems(VersionsIn(manifest, n))
                          \cup (IF n = cur.b.name THEN {cur.b.version, DEFAULT_VERSION}
                                ELSE {})]_vars

\* both processes have recorded a version of bigtable and written the file:
\* the file lacks the version the other process recorded
C18_Witness ==
  /\ pc \in {"idle", "done"}
  /\ peer.pc \in {"idle", "done"}
  /\ "0.4.1" \in Elems(VersionsIn(peer.manifest, "bigtable"))
  /\ "0.4.1" \notin Elems(VersionsIn(manifest, "bigtable"))
  /\ "0.4.0" \in Elems(VersionsIn(manifest, "bigtable"))
  /\ manifestFile = manifest
  /\ cur.op = "updateManifest"
  /\ peer.cur.op = "updateManifest"
  /\ calls = 2

\* the version strings of the universe and of the state
VersionStrings ==
  UmbrellaVersions \cup DepVersions \cup {DEFAULT_VERSION, Undefined, cur.version}
    \cup Elems(bundleVersions)

\* C19: for every version string v, new Bundler(v) is equivalent to
\* new Bundler(new Builder(umbrellaName, v)): both wrap a Builder with the
\* umbrella name, isUmbrella true, the same version and the same output
\* directory; a Bundler constructed from a Builder wraps exactly that Builder
\* unchanged.
C19_BundlerEquivalence ==
  /\ \A v \in VersionStrings :
       /\ Bundler(Str(v)) = Bundler(Obj(Builder(UMBRELLA_PACKAGE, v, "")))
       /\ Bundler(Str(v)).name = UMBRELLA_PACKAGE
       /\ Bundler(Str(v)).isUmbrella
       /\ Bundler(Str(v)).version = (IF v = Undefined THEN DEFAULT_VERSION ELSE v)
       /\ Bundler(Str(v)).isMaster = (v \in {Undefined, DEFAULT_VERSION})
       /\ Bundler(Str(v)).dir = BundleDir(IF v = Undefined THEN DEFAULT_VERSION ELSE v)
  /\ Bundler(Obj(cur.b)) = cur.b
  /\ \A n \in Packages : \A v \in VersionStrings : \A cwd \in {"", SubmoduleCwd} :
       Bundler(Obj(Builder(n, v, cwd))) = Builder(n, v, cwd)
  /\ (pc = "updateDep.loop" /\ DEFAULT_VERSION \in Elems(bundleVersions)) =>
       /\ Bundler(Str(DEFAULT_VERSION)).isMaster
       /\ getTagName(Bundler(Str(DEFAULT_VERSION))) = DEFAULT_VERSION

\* updateDep made a Bundler of the version string "0.45.0" and added the docs
\* of the running build under that Bundler's directory
C19_Witness ==
  /\ UpdateDepAt # 0
  /\ Examined # <<>>
  /\ Examined[1] = "0.45.0"
  /\ Added # <<>>
  /\ DEFAULT_VERSION \in Elems(bundleVersions)
  /\ PathJoin(Bundler(Str("0.45.0")).dir, PathJoin(cur.b.name, "index.json"))
       \in DOMAIN fs

\* C20: a build whose version equals the default ("master", also when the
\* version is omitted) skips propagation: build() never invokes
\* Bundler.updateDep for it, and therefore buildAll() never adds dependency
\* docs to any already-built umbrella version through updateDep; the only
\* versions buildAll can add to the manifest are "master".
C20_MasterSkips ==
  [][/\ (cur'.op = "build" /\ cur'.version \in {DEFAULT_VERSION, Undefined}) =>
          /\ cur'.b.isMaster
          /\ pc' \notin {"updateDep", "updateDep.loop"}
          /\ \A k \in 1..Len(trace') : trace'[k].op # "Bundler.updateDep"
     /\ pending' # <<>> =>
          /\ cur'.op = "build"
          /\ cur'.version = DEFAULT_VERSION
          /\ \A n \in Packages :
               Elems(VersionsIn(manifest', n)) \ Elems(VersionsIn(manifest, n))
                 \subseteq {DEFAULT_VERSION}
          /\ \A uv \in UmbrellaVersions : \A p \in BundleTree(uv) : NotWritten(p)]_vars

\* buildAll has built bigtable, the umbrella package and vision at master:
\* the master bundle holds bigtable's docs, put there by bundle
C20_Witness ==
  /\ pc = "done"
  /\ pending = <<"vision">>
  /\ calls = 1
  /\ \A n \in Packages : Elems(VersionsIn(manifest, n)) = {DEFAULT_VERSION}
  /\ PathJoin(BundleDir(DEFAULT_VERSION), "bigtable/index.json") \in DOMAIN fs
  /\ trace[Len(trace)] = Event("updateManifest", DEFAULT_VERSION)


\* the positions in the running call's log of the events of an operation
At(op) == {i \in 1..Len(trace) : trace[i].op = op}

\* the positions of the builds of dependencies inside the submodule
DepBuilds == {i \in At("Builder.build") : trace[i].arg # cur.b.dir}

\* the positions of the writes of the combined type dictionary and TOC
BundleWrites ==
  {i \in At("Builder.write") :
     trace[i].arg \in {PathJoin(cur.b.dir, TYPES_DICT), PathJoin(cur.b.dir, TOC)}}

\* C21: in every successful Bundler.bundle the submodule checkout is created
\* exactly once, before any dependency is checked out or built; every
\* dependency checkout happens in that submodule and none in the main working
\* tree, which stays on the umbrella's tag; and the submodule is deinitialized
\* exactly once, as the last step, after all dependency builds and after the
\* combined type dictionary and TOC have been written.
C21_SubmoduleOrder ==
  (cur.op = "build" /\ cur.b.isUmbrella /\ pc = "restore") =>
    /\ Cardinality(At("git.submodule")) = 1
    /\ Cardinality(At("git.deinit")) = 1
    /\ \A s \in At("git.submodule") :
         \A i \in At("submodule.checkout") \cup DepBuilds : s < i
    /\ Cardinality(At("submodule.checkout")) = Cardinality(DepBuilds)
    /\ \A i \in At("submodule.checkout") : i + 1 \in DepBuilds
    /\ At("git.checkout") = {1}
    /\ head = getTagName(cur.b)
    /\ Cardinality(BundleWrites) = 2
    /\ \A d \in At("git.deinit") :
         /\ d = Len(trace)
         /\ \A i \in DepBuilds \cup BundleWrites : i < d
    /\ \A w \in BundleWrites : \A i \in DepBuilds : i < w
    /\ SubmodulePaths(fs) = {}

\* an umbrella bundle that has built two dependencies in the submodule
C21_Witness ==
  /\ cur.op = "build" /\ cur.b.isUmbrella /\ pc = "restore"
  /\ Cardinality(DepBuilds) = 2
  /\ At("git.deinit") = {Len(trace)}


\* the last element of a non-empty list
Last(list) == list[Len(list)]

\* "master" is the last element of a package's versions list
MasterLast(modules, id) ==
  /\ VersionsIn(modules, id) # <<>>
  /\ Last(VersionsIn(modules, id)) = DEFAULT_VERSION

\* C25: every manifest entry that updateManifest creates has "master" as the
\* last element of its versions list, and an entry whose list ends with
\* "master" keeps it there under every later step, updateManifest calls
\* included; so for an umbrella entry of this shape every version the loop
\* of updateDep examines is another one than "master", and the one element
\* the loop leaves out, the last, is "master".
C25_MasterLast ==
  [][/\ \A id \in Packages :
          /\ (findWhere(manifest, "id", id) = 0 /\ findWhere(manifest', "id", id) # 0)
               => MasterLast(manifest', id)
          /\ MasterLast(manifest, id) => MasterLast(manifest', id)
     /\ (pc = "updateDep.loop" /\ MasterLast(manifest, UMBRELLA_PACKAGE))
          => /\ idx + 1 < Len(bundleVersions)
             /\ LoopVersion(idx) # DEFAULT_VERSION
             /\ \A i \in (idx + 1)..(Len(bundleVersions) - 1) :
                  ~LoopTest(i) => bundleVersions[i + 1] = DEFAULT_VERSION]_vars

\* the umbrella's entry was created by updateManifest and a later call has
\* recorded another version in it
C25_Witness ==
  /\ cur.op = "updateManifest" /\ pc = "done"
  /\ Len(recorded) = 3 /\ recorded[1] = DEFAULT_VERSION
  /\ Len(bundleVersions) = 3
  /\ MasterLast(manifest, UMBRELLA_PACKAGE)


\* the tags of the versions recorded for a package in the manifest that are
\* valid and satisfy the range the checked-out umbrella declares for it
SatisfyingTags(name) ==
  {name \o "-" \o v :
     v \in {w \in Elems(VersionsIn(manifest, name)) :
              /\ SemverValid(w)
              /\ \E k \in 1..Len(pkgJson[head]) :
                   /\ pkgJson[head][k].key = "@google-cloud/" \o name
                   /\ SemverSatisfies(w, pkgJson[head][k].range)}}

\* C26: in Bundler.bundle every dependency is built at a version recorded for
\* it in the manifest that satisfies the declared range: the submodule is
\* never checked out at another ref, in particular not at "master" when no
\* recorded valid version satisfies the range.
C26_BuiltAtResolved ==
  (cur.op = "build" /\ cur.b.isUmbrella /\ pc \in {"restore", "failed"}) =>
    \A i \in At("submodule.checkout") :
      \E n \in Packages : trace[i].arg \in SatisfyingTags(n)


\* the combined type dictionary a bundle writes for the umbrella on the
\* checked-out tree: the umbrella's own entries, then those of the declared
\* dependencies
Combined == TypesOf(UMBRELLA_PACKAGE, "") \o DepTypes(DependenciesAt(head))

\* C27: bundle() is idempotent on the type dictionary: when the umbrella's
\* written type dictionary is the one a bundle run has produced from the
\* present manifest, sources and dependency docs, a further successful
\* bundle() on the same umbrella version leaves it equal: no dependency entry
\* is listed twice and no contents path is prefixed twice.
C27_BundleIdempotent ==
  [][(/\ pc = "Bundler.bundle" /\ pc' = "done"
      /\ fs[PathJoin(cur.b.dir, TOC)].bundle
      /\ fs[PathJoin(cur.b.dir, TYPES_DICT)] = Combined)
     => fs'[PathJoin(cur.b.dir, TYPES_DICT)] = fs[PathJoin(cur.b.dir, TYPES_DICT)]]_vars


NullVersion == "TypeError: Cannot read property 'version' of null"

\* every doc file of the built package is in its folder of umbrella version
\* uv, as Bundler.add has written it
KeepsDocs(uv) ==
  \A x \in DocNames(cur.b.dir) :
    /\ PathJoin(PathJoin(BundleDir(uv), cur.b.name), x) \in DOMAIN fs
    /\ fs[PathJoin(PathJoin(BundleDir(uv), cur.b.name), x)]
         = [fs[PathJoin(cur.b.dir, x)]
              EXCEPT !.overview = createOverview(cur.b.name, TRUE)]

\* C28: when updateDep fails part-way through build(name, version), at an
\* examined umbrella version that does not declare the built package, nothing
\* is rolled back: the manifest, in memory and in its file, records the built
\* version, the package's own docs are written, and every umbrella version
\* examined before the failing one keeps the docs added to it.
C28_NoRollback ==
  (cur.op = "build" /\ pc = "failed" /\ err = NullVersion /\ UpdateDepAt # 0) =>
    /\ ~NotIn(VersionsIn(manifest, cur.b.name), cur.b.version)
    /\ manifestFile = manifest
    /\ DocNames(cur.b.dir) # {}
    /\ Len(Examined) = Len(Added) + 1
    /\ DeclaredRange(Last(Examined), cur.b.name) = Null
    /\ \A k \in 1..Len(Added) : Added[k] = Examined[k] /\ KeepsDocs(Added[k])

\* updateDep has added the docs to one umbrella version and failed at the next
C28_Witness ==
  /\ cur.op = "build" /\ pc = "failed" /\ err = NullVersion
  /\ Len(Added) = 1
  /\ Len(Examined) = 2
  /\ KeepsDocs(Added[1])


IsCheckout(e) == e.op = "git.checkout"

\* the checkouts of the main working tree in the running call, in order
Checkouts == SelectSeq(trace, IsCheckout)

\* C29: throughout build(name, version) the checkouts of the main working
\* tree never nest: tag checkouts and restoring checkouts alternate, starting
\* with a tag checkout, so the tree is on the last checked-out tag after an
\* odd number of them and back on the original ref after an even number;
\* Bundler.add inside updateDep runs right after a restoring checkout, on the
\* restored tree; and when build returns every tag checkout has been
\* followed by its restore.
C29_NoNesting ==
  cur.op = "build" =>
    /\ \A k \in 1..Len(Checkouts) : (Checkouts[k].arg = "-") <=> (k % 2 = 0)
    /\ Len(Checkouts) % 2 = 1 => head = Last(Checkouts).arg
    /\ Len(Checkouts) % 2 = 0 => head = DEFAULT_VERSION
    /\ \A i \in At("Bundler.add") :
         (UpdateDepAt # 0 /\ i > UpdateDepAt)
           => /\ trace[i - 1] = Event("git.checkout", "-")
              /\ Cardinality({j \in At("git.checkout") : j < i}) % 2 = 0
    /\ pc = "done" => (Len(Checkouts) % 2 = 0 /\ Len(Checkouts) >= 2)

\* a build has returned after updateDep checked out two umbrella versions and
\* added the docs to both
C29_Witness ==
  /\ cur.op = "build" /\ pc = "done"
  /\ Len(Checkouts) = 6
  /\ Len(Added) = 2
  /\ head = DEFAULT_VERSION


\* the ids of the module entries of a manifest, in order
RECURSIVE Ids(_)
Ids(modules) ==
  IF modules = <<>> THEN <<>> ELSE <<Head(modules).id>> \o Ids(Tail(modules))

\* the elements of old are in new, in the order they have in old
KeepsOrder(old, new) ==
  \E at \in [1..Len(old) -> 1..Len(new)] :
    /\ \A k \in 1..Len(old) : new[at[k]] = old[k]
    /\ \A j, k \in 1..Len(old) : j < k => at[j] < at[k]

\* C30: the manifest only grows and stays well-formed under updateManifest:
\* from a manifest with unique module ids, every step that changes the
\* manifest leaves the ids unique, removes no module entry and no recorded
\* version, and keeps the versions already recorded in their relative order.
C30_OnlyGrows ==
  [][(manifest' # manifest /\ NoDuplicates(Ids(manifest))) =>
       /\ pc = "updateManifest"
       /\ NoDuplicates(Ids(manifest'))
       /\ Elems(Ids(manifest)) \subseteq Elems(Ids(manifest'))
       /\ Len(manifest') \in {Len(manifest), Len(manifest) + 1}
       /\ \A id \in Elems(Ids(manifest)) :
            /\ Elems(VersionsIn(manifest, id)) \subseteq Elems(VersionsIn(manifest', id))
            /\ KeepsOrder(VersionsIn(manifest, id), VersionsIn(manifest', id))]_vars

\* two updateManifest calls have changed the manifest: one has created an
\* entry, the running one has recorded a version in an entry
C30_Witness ==
  /\ cur.op = "updateManifest" /\ pc = "done"
  /\ Len(manifest) = 3
  /\ \E k \in 1..Len(trace) : trace[k].op = "versions.unshift"
  /\ \A k \in 1..Len(trace) : trace[k].op # "modules.push"
  /\ NoDuplicates(Ids(manifest))

====
